---- MODULE Spec2Model ----
(***************************************************************************)
(* Model of texeval2mtex.py: conversion of a TexEval RES file into one     *)
(* MTEX DAT table per pole figure and correction state.                    *)
(*                                                                         *)
(* Numbers.  Every real number of the script is kept as an integer count   *)
(* of 1/10000 degree (or 1/10000 intensity unit): 5.00 is 50000.  The      *)
(* conversions of the script (int(), round(x, 3), '%.2f', '%i', '%.3f')    *)
(* are operators on that representation.  Inputs avoid exact rounding      *)
(* ties, whose outcome in binary floating point depends on the digits.     *)
(*                                                                         *)
(* Lines.  A line of the RES file is a record                              *)
(*   kind  : "text" (words), "hdr" (a pole figure header in the fixed      *)
(*           column format) or "data" (numeric tokens),                    *)
(*   words : the whitespace separated words of a text line, each a         *)
(*           sequence of characters,                                       *)
(*   hdr   : the fields of a header line,                                  *)
(*   toks  : the numeric tokens of a data line,                            *)
(*   trail : whether the line carries trailing blanks.                     *)
(* Line indices held in the state are Python's (0-based); content[n + 1]   *)
(* is Python's content[n].                                                 *)
(***************************************************************************)
EXTENDS Integers, Sequences, FiniteSets, TLC

VARIABLES
    infile,         \* <<stem, extension>> of the input file name
    n_pfs,          \* requested number of pole figures
    disk,           \* the lines of the input file on disk
    opened,         \* whether the input file has been opened
    content,        \* the lines read from the file
    corr,           \* defocusing correction present
    step_polar,     \* polar step
    step_azimuthal, \* azimuthal step
    pfs_df,         \* per plane: header signatures and header positions
    corr_data,      \* the pass being run: FALSE uncorrected, TRUE corrected
    i_plane,        \* loop index i of get_intensities / write_intensities_to_file (0-based)
    pfs_ints,       \* grid being filled by get_intensities
    uncorr_ints,    \* grid returned by the uncorrected pass
    corr_ints,      \* grid returned by the corrected pass
    outfiles,       \* files written: name -> rows
    pc,             \* position in the script
    exc,            \* uncaught exception, "none" if none
    exitStatus      \* exit status of the process, -1 while running

vars == <<infile, n_pfs, disk, opened, content, corr, step_polar, step_azimuthal,
          pfs_df, corr_data, i_plane, pfs_ints, uncorr_ints, corr_ints,
          outfiles, pc, exc, exitStatus>>

(***************************************************************************)
(* Bounds and program constants                                            *)
(***************************************************************************)
MaxNPfs == 2

planes == <<"111", "200", "220", "311", "222", "400">>

step == 8

NaN == -1

Min(a, b) == IF a < b THEN a ELSE b
Max(a, b) == IF a > b THEN a ELSE b

(***************************************************************************)
(* Conversions                                                             *)
(***************************************************************************)
\* int(a / b) for non-negative a and positive b
IntDiv(a, b) == a \div b

\* polar_max of a pass, in degrees
PolarMax(cd) == IF cd THEN 90 ELSE 80

\* int(polar_max / step_polar)
RingCount(cd, sp) == IntDiv(PolarMax(cd) * 10000, sp)

\* int(360 / step_azimuthal)
AzimuthalCount(az) == IntDiv(360 * 10000, az)

\* int(step * polar_max / step_polar)
StopIncrement(cd, sp) == IntDiv(step * PolarMax(cd) * 10000, sp)

\* '%.2f' % x : the digits before and after the decimal point
Fmt2(x) == LET h == (x + 50) \div 100 IN <<h \div 100, h % 100>>

\* round(float(x), 3)
Round3(x) == ((x + 5) \div 10) * 10

\* '%.3f' % x : the number of thousandths printed
Fmt3(x) == (x + 5) \div 10

\* '%i' % x : truncation to an integer
FmtI(x) == x \div 10000

\* float() of a plane name read as a number
PlaneNumber(p) ==
    CASE p = "111" -> 111 [] p = "200" -> 200 [] p = "220" -> 220
      [] p = "311" -> 311 [] p = "222" -> 222 [] p = "400" -> 400
      [] OTHER -> 0

(***************************************************************************)
(* Lines                                                                   *)
(***************************************************************************)
NoHdr == <<>>

TextLine(ws) == [kind |-> "text", words |-> ws, hdr |-> NoHdr, toks |-> <<>>, trail |-> FALSE]
DataLine(ts) == [kind |-> "data", words |-> <<>>, hdr |-> NoHdr, toks |-> ts, trail |-> FALSE]
HdrLine(h, t) == [kind |-> "hdr", words |-> <<>>, hdr |-> h, toks |-> <<>>, trail |-> t]

\* The header text built by get_meta_data: plane, azimuthal step, azimuthal
\* count, 0, polar step, polar count, 0 (the blank padding is fixed).
Signature(plane_str, cd, sp, az) ==
    <<plane_str, Fmt2(az), AzimuthalCount(az), 0, Fmt2(sp), RingCount(cd, sp), 0>>

\* line.rstrip()
Rstrip(line) == [line EXCEPT !.trail = FALSE]

\* signature == line.rstrip()
MatchesSignature(line, sig) == Rstrip(line) = HdrLine(sig, FALSE)

\* whether every word of line.split() is accepted by float()
IsNumeric(line) == line.kind \in {"hdr", "data"}

\* [float(x) for x in line.split()] of a numeric line
Floats(line) ==
    IF line.kind = "hdr"
    THEN LET h == line.hdr IN
         <<PlaneNumber(h[1]) * 10000, h[2][1] * 10000 + h[2][2] * 100, h[3] * 10000, 0,
           h[5][1] * 10000 + h[5][2] * 100, h[6] * 10000, 0>>
    ELSE line.toks

(***************************************************************************)
(* Input files.  A layout describes one RES file: the preamble (line 3     *)
(* carries the correction marker, line 4 the steps), then for each plane   *)
(* a header line followed by one block of `step` lines per polar ring,     *)
(* first the uncorrected figures and, when the marker is present, the      *)
(* corrected ones.  One defect may be planted at plane dp of section dm.   *)
(***************************************************************************)
RECURSIVE Flatten(_)
Flatten(ss) == IF ss = <<>> THEN <<>> ELSE Head(ss) \o Flatten(Tail(ss))

StepPolarValues == {100000, 400000, 265000}
StepAzimuthalValues == {900000, 300000, 725000}
Defects == {"none", "trail", "noHdr", "short", "long1", "long2", "dup", "trunc", "badpre"}
Located == {"noHdr", "short", "long1", "long2", "dup"}
Extensions == {".RES", ".res", ".txt"}

Layouts ==
    { l \in [marker : BOOLEAN, sp : StepPolarValues, az : StepAzimuthalValues,
             defect : Defects, dm : BOOLEAN, dp : 1..MaxNPfs] :
        /\ (l.defect \notin Located) => (l.dm = FALSE /\ l.dp = 1)
        /\ (l.defect = "dup") => (l.dm = FALSE)
        /\ l.dm => l.marker }

\* The intensity printed at column c of ring r of plane p in variant m of the data
Tok(m, p, r, c) ==
    ((((m * (MaxNPfs + 1) + p) * 10 + r) * 16 + c) * 20) + <<0, 4, 6>>[(c % 3) + 1]

PerLine(cols) == (cols + step - 1) \div step

BlockLine(m, p, r, cols, k, defect) ==
    LET per   == PerLine(cols)
        n     == Max(0, Min(cols, (k + 1) * per) - k * per)
        full  == [x \in 1..n |-> Tok(m, p, r, k * per + x - 1)]
        kLast == (cols - 1) \div per
    IN  CASE defect = "short" /\ k = kLast     -> DataLine(SubSeq(full, 1, n - 1))
          [] defect = "long1" /\ k = kLast + 1 -> DataLine(<<Tok(m, p, r, cols)>>)
          [] defect = "long2" /\ k = kLast + 1 -> DataLine(<<Tok(m, p, r, cols), Tok(m, p, r, cols + 1)>>)
          [] OTHER                             -> DataLine(full)

Block(m, p, r, cols, defect) ==
    [k \in 1..step |-> BlockLine(m, p, r, cols, k - 1, defect)]

PlaneLines(m, cd, p, l, planted) ==
    LET cols == AzimuthalCount(l.az)
        head == IF planted /\ l.defect = "noHdr"
                THEN TextLine(<< <<"#">> >>)
                ELSE HdrLine(Signature(planes[p], cd, l.sp, l.az), l.defect = "trail")
    IN  <<head>> \o
        Flatten([r \in 1..RingCount(cd, l.sp) |->
                    Block(m, p, r - 1, cols,
                          IF planted /\ r = 1 THEN l.defect ELSE "none")])

Section(cd, l) ==
    Flatten([p \in 1..MaxNPfs |->
                PlaneLines(IF cd THEN 1 ELSE 0, cd, p, l, l.dm = cd /\ l.dp = p)])

Preamble(l) ==
    << TextLine(<< <<"T", "e", "x", "E", "v", "a", "l">> >>),
       TextLine(<< <<"s", "a", "m", "p", "l", "e">> >>),
       TextLine(IF l.defect = "badpre" THEN <<>>
                ELSE IF l.marker THEN << <<"L", "M", "A", "X", "2", "2">> >>
                ELSE << <<"P", "F">> >>),
       DataLine(<<10000, l.sp, l.az>>) >>

RESFile(l) ==
    LET body == Preamble(l) \o Section(FALSE, l)
                  \o (IF l.marker THEN Section(TRUE, l) ELSE <<>>)
                  \o (IF l.defect = "dup" THEN PlaneLines(2, FALSE, l.dp, l, FALSE) ELSE <<>>)
    IN  IF l.defect = "trunc" THEN SubSeq(body, 1, Len(body) - 3) ELSE body

(***************************************************************************)
(* Header location: get_meta_data                                          *)
(***************************************************************************)
\* pd.DataFrame(index=planes[:n_pfs], columns=...) : every cell empty
EmptyFrame(n) ==
    [i \in 1..Min(n, Len(planes)) |->
        [name |-> planes[i], uncorr_head |-> NoHdr, uncorr_head_pos |-> NaN,
         corr_head |-> NoHdr, corr_head_pos |-> NaN]]

HeadOf(row, cd) == IF cd THEN row.corr_head ELSE row.uncorr_head
PosOf(row, cd) == IF cd THEN row.corr_head_pos ELSE row.uncorr_head_pos

\* first loop of get_meta_data: the signature of every requested plane
WithSignatures(df, cd, sp, az) ==
    [i \in 1..Len(df) |->
        IF cd THEN [df[i] EXCEPT !.corr_head = Signature(df[i].name, cd, sp, az)]
        ELSE [df[i] EXCEPT !.uncorr_head = Signature(df[i].name, cd, sp, az)]]

\* pfs_df.iloc[i, pos + 1] = lineCount - 1
SetPos(df, i, cd, v) ==
    IF cd THEN [df EXCEPT ![i].corr_head_pos = v]
    ELSE [df EXCEPT ![i].uncorr_head_pos = v]

\* One iteration of `for line in content`: the first plane whose signature
\* equals the line gets the line's index as its position.
ScanLine(df, cd, line, lineCount) ==
    LET hits == {i \in 1..Len(df) : MatchesSignature(line, HeadOf(df[i], cd))}
    IN  IF hits = {} THEN df
        ELSE SetPos(df, CHOOSE i \in hits : \A h \in hits : i <= h, cd, lineCount - 1)

\* second loop of get_meta_data, for the lines with lineCount in lo+1..hi
\* (the range is split in two halves, scanned one after the other)
RECURSIVE ScanLines(_, _, _, _, _)
ScanLines(df, cd, lines, lo, hi) ==
    IF hi <= lo THEN df
    ELSE IF hi = lo + 1 THEN ScanLine(df, cd, lines[hi], hi)
    ELSE LET mid   == (lo + hi) \div 2
             first == ScanLines(df, cd, lines, lo, mid)
         IN  IF Len(first) = Len(df) THEN ScanLines(first, cd, lines, mid, hi) ELSE first

(***************************************************************************)
(* Grid extraction: get_intensities                                        *)
(***************************************************************************)
\* np.zeros((rings, cols)) for one plane
Zeros(rings, cols) == [r \in 1..rings |-> [c \in 1..cols |-> 0]]

\* an assignment that forgets the fill index and always writes from column 0
AssignSliceAtZero(row, i_pf, ints) ==
    IF Len(ints) <= Len(row)
    THEN [row |-> [c \in 1..Len(row) |-> IF c <= Len(ints) THEN ints[c] ELSE row[c]],
          exc |-> "none"]
    ELSE [row |-> row, exc |-> "ValueError"]

\* row[i_pf:(i_pf + len(ints))] = ints, with numpy's clipping of the slice
\* to the row and broadcasting of a single value
AssignSlice(row, i_pf, ints) ==
    LET lo == Min(i_pf, Len(row))
        hi == Min(i_pf + Len(ints), Len(row))
    IN  IF Len(ints) = hi - lo
        THEN [row |-> [c \in 1..Len(row) |->
                          IF c > lo /\ c <= hi THEN ints[c - lo] ELSE row[c]],
              exc |-> "none"]
        ELSE IF Len(ints) = 1
        THEN [row |-> [c \in 1..Len(row) |->
                          IF c > lo /\ c <= hi THEN ints[1] ELSE row[c]],
              exc |-> "none"]
        ELSE [row |-> row, exc |-> "ValueError"]

\* `for k in range(step)` from k on, for the block starting at line j;
\* inGrid tells whether ring i_pa exists in pfs_ints
RECURSIVE FillBlock(_, _, _, _, _, _)
FillBlock(lines, row, inGrid, j, k, i_pf) ==
    IF k = step THEN [row |-> row, exc |-> "none"]
    ELSE IF j + k >= Len(lines) THEN [row |-> row, exc |-> "IndexError"]
    ELSE LET line == lines[j + k + 1] IN
         IF ~IsNumeric(line) THEN [row |-> row, exc |-> "ValueError"]
         ELSE IF ~inGrid THEN [row |-> row, exc |-> "IndexError"]
         ELSE LET fl   == Floats(line)
                  ints == [x \in 1..Len(fl) |-> Round3(fl[x])]
                  a    == AssignSlice(row, i_pf, ints)
              IN  IF a.exc # "none" THEN a
                  ELSE FillBlock(lines, a.row, inGrid, j, k + 1, i_pf + Len(ints))

\* `for j in range(start, stop, step)` from j on, i_pa rings done
RECURSIVE WalkBlocks(_, _, _, _, _)
WalkBlocks(lines, grid, j, stop, i_pa) ==
    IF j >= stop THEN [grid |-> grid, exc |-> "none"]
    ELSE LET inGrid == i_pa < Len(grid)
             b == FillBlock(lines, IF inGrid THEN grid[i_pa + 1] ELSE <<>>, inGrid, j, 0, 0)
             g == IF inGrid THEN [grid EXCEPT ![i_pa + 1] = b.row] ELSE grid
         IN  IF b.exc # "none" THEN [grid |-> g, exc |-> b.exc]
             ELSE WalkBlocks(lines, g, j + step, stop, i_pa + 1)

\* body of `for i in range(n_pfs)` of get_intensities for one plane
ExtractPlane(lines, pos, cd, sp, az) ==
    LET zero == Zeros(RingCount(cd, sp), AzimuthalCount(az)) IN
    IF pos = NaN THEN [grid |-> zero, exc |-> "TypeError"]
    ELSE WalkBlocks(lines, zero, pos + 1, pos + 1 + StopIncrement(cd, sp), 0)

(***************************************************************************)
(* Table writing: write_intensities_to_file                                *)
(***************************************************************************)
\* the rows np.savetxt writes for one plane's grid, ring after ring; the
\* azimuth of column l is the sum k of l steps, the polar angle j * step_polar
TableRows(pf, sp, az) ==
    LET polar_max     == Len(pf)
        azimuthal_max == IF polar_max = 0 THEN 0 ELSE Len(pf[1])
    IN  [n \in 1..(polar_max * azimuthal_max) |->
            LET j == (n - 1) \div azimuthal_max
                l == (n - 1) % azimuthal_max
            IN  <<FmtI(j * sp), FmtI(l * az), Fmt3(pf[j + 1][l + 1])>>]

\* a writer that appends the uncorrected suffix in both passes
SuffixAlwaysUncorr(cd) == "_uncorr.dat"

Suffix(cd) == IF cd THEN "_corr.dat" ELSE "_uncorr.dat"

\* a writer loop that stops one plane early
PlaneCountShort(ints) == Len(ints) - 1

\* pfs_ints.shape[0], the number of files one call writes
PlaneCount(ints) == Len(ints)

\* infile[:-4] + '_pf' + plane + suffix
OutName(name, plane_str, cd) == <<name[1], plane_str, Suffix(cd)>>

(***************************************************************************)
(* The script                                                              *)
(***************************************************************************)
NoGrid == <<>>

Init ==
    /\ infile \in {<<"sample", e>> : e \in Extensions}
    /\ n_pfs \in (1..MaxNPfs) \cup {Len(planes) + 1}
    /\ disk \in {RESFile(l) : l \in Layouts}
    /\ opened = FALSE
    /\ content = <<>>
    /\ corr = FALSE
    /\ step_polar = 0
    /\ step_azimuthal = 0
    /\ pfs_df = <<>>
    /\ corr_data = FALSE
    /\ i_plane = 0
    /\ pfs_ints = NoGrid
    /\ uncorr_ints = NoGrid
    /\ corr_ints = NoGrid
    /\ outfiles = <<>>
    /\ pc = "check_ext"
    /\ exc = "none"
    /\ exitStatus = -1

\* an uncaught exception ends the process with status 1
Raise(e) ==
    /\ pc' = "raised"
    /\ exc' = e
    /\ exitStatus' = 1

\* a check that lets every name but '.RES' through
HasResExtensionInverted(name) == name[2] # ".RES" \/ name[2] = ".res"

\* infile.endswith('.RES') or infile.endswith('.res')
HasResExtension(name) == name[2] = ".RES" \/ name[2] = ".res"

\* lines 176-179: the extension check; sys.exit() without argument
CheckExtension ==
    /\ pc = "check_ext"
    /\ IF ~HasResExtension(infile)
       THEN /\ pc' = "exited"
            /\ exitStatus' = 0
       ELSE /\ pc' = "read"
            /\ exitStatus' = exitStatus
    /\ UNCHANGED <<infile, n_pfs, disk, opened, content, corr, step_polar,
                   step_azimuthal, pfs_df, corr_data, i_plane, pfs_ints,
                   uncorr_ints, corr_ints, outfiles, exc>>

\* lines 181-183: open(infile), f.readlines()
ReadFile ==
    /\ pc = "read"
    /\ opened' = TRUE
    /\ content' = disk
    /\ pc' = "sniff"
    /\ UNCHANGED <<infile, n_pfs, disk, corr, step_polar, step_azimuthal, pfs_df,
                   corr_data, i_plane, pfs_ints, uncorr_ints, corr_ints,
                   outfiles, exc, exitStatus>>

\* content[2].split()[0][:4] == 'LMAX'
HasMarker(line) ==
    /\ line.kind = "text"
    /\ SubSeq(line.words[1], 1, Min(4, Len(line.words[1]))) = <<"L", "M", "A", "X">>

\* number of words of line.split()
WordCount(line) == IF line.kind = "text" THEN Len(line.words) ELSE Len(Floats(line))

\* the exception of lines 186-193, "none" if they run through
SniffError(lines) ==
    IF Len(lines) < 3 \/ WordCount(lines[3]) = 0 THEN "IndexError"
    ELSE IF Len(lines) < 4 \/ WordCount(lines[4]) < 2 THEN "IndexError"
    ELSE IF ~IsNumeric(lines[4]) THEN "ValueError"
    ELSE IF WordCount(lines[4]) < 3 THEN "IndexError"
    ELSE "none"

\* lines 185-202: correction marker, steps, empty data frame
Sniff ==
    /\ pc = "sniff"
    /\ IF SniffError(content) # "none"
       THEN /\ Raise(SniffError(content))
            /\ UNCHANGED <<corr, step_polar, step_azimuthal, pfs_df>>
       ELSE /\ corr' = HasMarker(content[3])
            /\ step_polar' = Floats(content[4])[2]
            /\ step_azimuthal' = Floats(content[4])[3]
            /\ pfs_df' = EmptyFrame(n_pfs)
            /\ pc' = "meta"
            /\ UNCHANGED <<exc, exitStatus>>
    /\ UNCHANGED <<infile, n_pfs, disk, opened, content, corr_data, i_plane,
                   pfs_ints, uncorr_ints, corr_ints, outfiles>>

\* get_meta_data for the current pass
GetMetaData ==
    /\ pc = "meta"
    /\ IF n_pfs > Len(pfs_df)
       THEN /\ Raise("IndexError")
            /\ UNCHANGED <<pfs_df, i_plane>>
       ELSE /\ pfs_df' = ScanLines(WithSignatures(pfs_df, corr_data, step_polar, step_azimuthal),
                                   corr_data, content, 0, Len(content))
            /\ i_plane' = 0
            /\ pc' = "ints"
            /\ UNCHANGED <<exc, exitStatus>>
    /\ UNCHANGED <<infile, n_pfs, disk, opened, content, corr, step_polar,
                   step_azimuthal, corr_data, pfs_ints, uncorr_ints, corr_ints,
                   outfiles>>

\* get_intensities: one iteration of `for i in range(n_pfs)`; the first
\* allocates pfs_ints, the last returns it
GetIntensities ==
    /\ pc = "ints"
    /\ LET rings == RingCount(corr_data, step_polar)
           cols  == AzimuthalCount(step_azimuthal)
           base  == IF i_plane = 0 THEN [p \in 1..n_pfs |-> Zeros(rings, cols)] ELSE pfs_ints
           x     == ExtractPlane(content, PosOf(pfs_df[i_plane + 1], corr_data),
                                 corr_data, step_polar, step_azimuthal)
           full  == [base EXCEPT ![i_plane + 1] = x.grid]
       IN  /\ pfs_ints' = full
           /\ IF x.exc # "none"
              THEN /\ Raise(x.exc)
                   /\ UNCHANGED <<i_plane, uncorr_ints, corr_ints>>
              ELSE IF i_plane + 1 < n_pfs
              THEN /\ i_plane' = i_plane + 1
                   /\ UNCHANGED <<pc, exc, exitStatus, uncorr_ints, corr_ints>>
              ELSE /\ i_plane' = 0
                   /\ pc' = "write"
                   /\ uncorr_ints' = IF corr_data THEN uncorr_ints ELSE full
                   /\ corr_ints' = IF corr_data THEN full ELSE corr_ints
                   /\ UNCHANGED <<exc, exitStatus>>
    /\ UNCHANGED <<infile, n_pfs, disk, opened, content, corr, step_polar,
                   step_azimuthal, pfs_df, corr_data, outfiles>>

\* write_intensities_to_file: one iteration of `for i in range(pfs_ints.shape[0])`;
\* after the last one the script goes on to the corrected pass or ends
WriteIntensitiesToFile ==
    /\ pc = "write"
    /\ LET ints == IF corr_data THEN corr_ints ELSE uncorr_ints
           name == OutName(infile, pfs_df[i_plane + 1].name, corr_data)
           rows == TableRows(ints[i_plane + 1], step_polar, step_azimuthal)
       IN  /\ outfiles' = [f \in DOMAIN outfiles \ {name} |-> outfiles[f]] @@ (name :> rows)
           /\ IF i_plane + 1 < PlaneCount(ints)
              THEN /\ i_plane' = i_plane + 1
                   /\ UNCHANGED <<pc, corr_data, exitStatus>>
              ELSE IF corr /\ ~corr_data
              THEN /\ i_plane' = 0
                   /\ corr_data' = TRUE
                   /\ pc' = "meta"
                   /\ UNCHANGED exitStatus
              ELSE /\ i_plane' = 0
                   /\ pc' = "done"
                   /\ exitStatus' = 0
                   /\ UNCHANGED corr_data
    /\ UNCHANGED <<infile, n_pfs, disk, opened, content, corr, step_polar,
                   step_azimuthal, pfs_df, pfs_ints, uncorr_ints, corr_ints, exc>>

Next ==
    \/ CheckExtension
    \/ ReadFile
    \/ Sniff
    \/ GetMetaData
    \/ GetIntensities
    \/ WriteIntensitiesToFile

Spec == Init /\ [][Next]_vars

(***************************************************************************)
(* Properties                                                              *)
(***************************************************************************)
GridOf(cd) == IF cd THEN corr_ints ELSE uncorr_ints

\* the planes the run was asked for that the catalog has
Requested == 1..Min(n_pfs, Len(planes))

\* 1-based numbers of the lines equal to the signature of plane i in mode cd
SignatureLines(i, cd) ==
    {n \in 1..Len(content) :
        /\ content[n].kind = "hdr"
        /\ content[n].hdr = <<planes[i], Fmt2(step_azimuthal), (360 * 10000) \div step_azimuthal, 0,
                              Fmt2(step_polar), (PolarMax(cd) * 10000) \div step_polar, 0>>}

\* the tokens of the `step` lines from Python line j on, in line order
BlockTokens(j) == Flatten([k \in 1..step |-> Floats(content[j + k])])

\* every ring block of plane i in mode cd holds exactly azimuthalMax tokens
WellFormed(i, cd) ==
    \A r \in 0..(RingCount(cd, step_polar) - 1) :
        Len(BlockTokens(PosOf(pfs_df[i], cd) + 1 + step * r)) = AzimuthalCount(step_azimuthal)

FileNames(cd) == {f \in DOMAIN outfiles : f[3] = (IF cd THEN "_corr.dat" ELSE "_uncorr.dat")}

\* C1: when the correction marker is set and the corrected signature of a
\* requested plane is nowhere in the file, the run ends in an error and no
\* output file at all has been written.
C1_NoPartialOutput ==
    (/\ pc \in {"done", "raised"}
     /\ corr
     /\ \E i \in Requested : SignatureLines(i, TRUE) = {})
    => (pc = "raised" /\ DOMAIN outfiles = {})

\* C2: a grid is produced only if every ring block it was read from holds
\* exactly azimuthalMax tokens (a short or long block fails the run).
C2_MismatchFails ==
    \A cd \in BOOLEAN :
        GridOf(cd) # NoGrid => \A i \in 1..n_pfs : WellFormed(i, cd)

\* C3: a complete run has written exactly one file per (plane, correction
\* state) pair, n_pfs * (2 if corrected data present else 1) files with
\* pairwise distinct names.
C3_FileCount ==
    pc = "done" =>
        /\ DOMAIN outfiles =
              {<<infile[1], planes[i], "_uncorr.dat">> : i \in 1..n_pfs}
              \cup (IF corr THEN {<<infile[1], planes[i], "_corr.dat">> : i \in 1..n_pfs} ELSE {})
        /\ Cardinality(DOMAIN outfiles) = n_pfs * (IF corr THEN 2 ELSE 1)

C3_Witness ==
    /\ pc = "done"
    /\ corr
    /\ n_pfs > 1
    /\ \A cd \in BOOLEAN : \A i \in 1..n_pfs : SignatureLines(i, cd) # {} /\ WellFormed(i, cd)

\* C4: with an extension other than .RES / .res the run stops at the
\* extension check: the file is never opened or read, no header is scanned,
\* no grid extracted and no file written.
C4_InvalidExtensionStops ==
    (infile[2] # ".RES" /\ infile[2] # ".res") =>
        /\ pc \in {"check_ext", "exited"}
        /\ ~opened
        /\ content = <<>>
        /\ pfs_df = <<>>
        /\ uncorr_ints = NoGrid /\ corr_ints = NoGrid
        /\ DOMAIN outfiles = {}

C4_Witness == pc = "exited" /\ infile[2] = ".txt" /\ ~opened /\ Len(disk) > 0

\* C5: every run that ends in an error ends with a nonzero exit status.
C5_ErrorsExitNonzero ==
    pc \in {"exited", "raised"} => exitStatus # 0

\* C6 as stated: in a produced grid, for a plane whose ring blocks hold
\* exactly azimuthalMax tokens, cell (r, c) equals the c-th token of the r-th
\* block of `step` lines after the header line.
C6_CellsAreTokens ==
    \A cd \in BOOLEAN :
        GridOf(cd) # NoGrid =>
            \A i \in 1..n_pfs :
                WellFormed(i, cd) =>
                    \A r \in 1..RingCount(cd, step_polar) :
                        \A c \in 1..AzimuthalCount(step_azimuthal) :
                            GridOf(cd)[i][r][c] =
                                BlockTokens(PosOf(pfs_df[i], cd) + 1 + step * (r - 1))[c]

\* C6 amended: cell (r, c) equals the c-th token of the r-th block rounded
\* to 3 decimal places.
C6_CellsAreRoundedTokens ==
    \A cd \in BOOLEAN :
        GridOf(cd) # NoGrid =>
            \A i \in 1..n_pfs :
                WellFormed(i, cd) =>
                    /\ Len(GridOf(cd)[i]) = (PolarMax(cd) * 10000) \div step_polar
                    /\ \A r \in 1..Len(GridOf(cd)[i]) :
                        /\ Len(GridOf(cd)[i][r]) = (360 * 10000) \div step_azimuthal
                        /\ \A c \in 1..Len(GridOf(cd)[i][r]) :
                            LET t == BlockTokens(PosOf(pfs_df[i], cd) + 1 + step * (r - 1))[c]
                            IN  GridOf(cd)[i][r][c] = ((t + 5) \div 10) * 10

C6_Witness ==
    /\ corr_ints # NoGrid
    /\ n_pfs > 1
    /\ \A cd \in BOOLEAN : \A i \in 1..n_pfs : WellFormed(i, cd)
    /\ \E c \in 1..AzimuthalCount(step_azimuthal) :
          /\ BlockTokens(PosOf(pfs_df[2], TRUE) + 1)[c] % 10 # 0
          /\ corr_ints[2][1][c] # 0
    /\ PerLine(AzimuthalCount(step_azimuthal)) > 1

\* C7: every written table has R x C rows, and the row at position j*C + l
\* reads back as (j * stepPolar, l * stepAzimuthal, grid[j][l]).
C7_RoundTrip ==
    \A cd \in BOOLEAN :
        \A i \in Requested :
            LET name == <<infile[1], planes[i], IF cd THEN "_corr.dat" ELSE "_uncorr.dat">> IN
            name \in DOMAIN outfiles =>
                LET g    == GridOf(cd)[i]
                    rows == outfiles[name]
                    C    == Len(g[1])
                IN  /\ Len(rows) = Len(g) * C
                    /\ \A j \in 0..(Len(g) - 1) :
                          \A l \in 0..(C - 1) :
                              /\ rows[j * C + l + 1][1] * 10000 = j * step_polar
                              /\ rows[j * C + l + 1][2] * 10000 = l * step_azimuthal
                              /\ rows[j * C + l + 1][3] * 10 = g[j + 1][l + 1]

\* C8: the position recorded for a plane is that of the first line equal to
\* its signature (1-based line number minus 1).
C8_FirstOccurrenceWins ==
    \A cd \in BOOLEAN :
        \A i \in 1..Len(pfs_df) :
            PosOf(pfs_df[i], cd) # NaN =>
                /\ SignatureLines(i, cd) # {}
                /\ \A n \in SignatureLines(i, cd) : PosOf(pfs_df[i], cd) + 1 <= n

\* number of values of range(start, start + stop_increment, step)
BlockCount(cd, sp) == (StopIncrement(cd, sp) + step - 1) \div step

\* C9: in both passes the number of blocks walked per plane equals the ring
\* dimension of the grid being filled, so that no ring index outside the
\* grid is addressed.
C9_BlocksMatchRings ==
    pc = "ints" =>
        BlockCount(corr_data, step_polar) = RingCount(corr_data, step_polar)

\* C10: files of a pass exist only once that pass has located and extracted
\* all its planes; a failure while locating or extracting leaves none of the
\* pass's files; the corrected pass starts with every uncorrected file written.
C10_PassOrdering ==
    /\ pc \in {"meta", "ints", "raised"} => FileNames(corr_data) = {}
    /\ \A cd \in BOOLEAN :
          FileNames(cd) # {} =>
              /\ GridOf(cd) # NoGrid
              /\ Len(GridOf(cd)) = n_pfs
              /\ \A i \in 1..n_pfs : PosOf(pfs_df[i], cd) # NaN
    /\ corr_data =>
          \A i \in 1..n_pfs : <<infile[1], planes[i], "_uncorr.dat">> \in DOMAIN outfiles

C10_Witness ==
    /\ pc = "raised"
    /\ corr_data
    /\ n_pfs > 1
    /\ Cardinality(FileNames(FALSE)) = n_pfs
    /\ FileNames(TRUE) = {}

====
